---- MODULE Spec2Model ----
(***************************************************************************)
(* A model of rust-overlaps: the Solution value type (structs.rs), the     *)
(* corpus loader and Maps queries (prepare.rs, structs.rs), Kucherov block *)
(* partitioning (modes/kucherov.rs) and the solve() pipeline (main.rs).    *)
(*                                                                         *)
(* The specifications share the variables; each one drives one component   *)
(* and leaves the variables of the others at their idle values:            *)
(*   SpecSolution  v_flip / un_reverse / cmp / eq / hash on Solutions      *)
(*   SpecBlocks    KucherovMode::get_block_lengths                         *)
(*   SpecMaps      read_and_prepare and the Maps accessors                 *)
(*   Spec          solve(): pipeline, aggregator, sort + dedup + write     *)
(*   SpecTwice     solve() run twice over one input                        *)
(*   SpecTracker   solve() with the thread running track_progress          *)
(***************************************************************************)
EXTENDS Integers, Sequences, FiniteSets, Bags, TLC

VARIABLES
    \* ---- SpecSolution
    s_orig,         \* the Solution as constructed
    s_cur,          \* the Solution after the methods applied so far
    s_panic,        \* a method panicked (arithmetic overflow, checked build)
    s_ops,          \* the methods applied so far, in order
    s_other,        \* a second Solution, for cmp / eq / hash
    s_cmp,          \* [done, ord, eq, hash_a, hash_b]: s_orig compared with s_other
    s_checks,       \* build has overflow checks (debug) or wraps (release)
    \* ---- SpecBlocks
    b_in,           \* [s_param, patt_len, err_rate, thresh, build]: one call
    b_out,          \* [done, status, blocks, ls, k]: what the call did
    \* ---- SpecMaps
    m_cfg,          \* [reversals, n_alphabet]
    m_pc,           \* "reading" the input file | "ready": Maps returned
    m_read,         \* records read from the file so far
    m_stored,       \* the byte strings appended to text after each '$', in order
    text,           \* Maps.text, a sequence of characters
    id2name_vec,    \* Maps.id2name_vec
    id2index_bdmap, \* Maps.id2index_bdmap: its (id, index) pairs, in order
    num_ids,        \* Maps.num_ids
    m_query,        \* the last accessor call and what it returned
    \* ---- Spec, SpecTwice (solve)
    config,         \* [greedy_output, track_progress, worker_threads]
    names,          \* id2name_vec of the Maps handed to solve()
    task_sols,      \* task_sols[id + 1]: the set solve_an_id(id) returns
    pc,             \* where the main thread is in solve()
    id_iterator,    \* the next id the pipeline hands to a worker
    working,        \* the ids worker threads are computing
    agg_pending,    \* the aggregator has taken a result and not yet counted it
    complete_solution_list,
    wrt_buf,        \* the lines written to the output file, in order
    written,        \* the Solutions those lines were written for, in order
    tasks_done,     \* ATOMIC_TASKS_DONE
    run,            \* 1, or 2 for the second run over the same input
    first_run,      \* [done, config, lines, written] of the finished first run
    \* ---- SpecTracker (the thread running track_progress)
    t_pc,           \* where the tracker thread is; "off": the thread is not followed
    t_tasks_done,   \* its local tasks_done, the value last loaded
    complete,       \* complete.len(): the '#' cells of the bar
    incomplete,     \* incomplete.len(): the ' ' cells of the bar
    tick_modulo,
    redraw,
    t_out           \* the last line printed: [complete, incomplete, tasks_done, newline]

solutionVars == <<s_orig, s_cur, s_panic, s_ops, s_other, s_cmp, s_checks>>
blockVars    == <<b_in, b_out>>
mapsVars     == <<m_cfg, m_pc, m_read, m_stored, text, id2name_vec,
                  id2index_bdmap, num_ids, m_query>>
solveVars    == <<config, names, task_sols, pc, id_iterator, working,
                  agg_pending, complete_solution_list, wrt_buf, written,
                  tasks_done, run, first_run>>
trackerVars  == <<t_pc, t_tasks_done, complete, incomplete, tick_modulo,
                  redraw, t_out>>
vars == <<solutionVars, blockVars, mapsVars, solveVars, trackerVars>>

\* Each specification moves the variables of one component only.
OnlySolution == UNCHANGED <<blockVars, mapsVars, solveVars, trackerVars>>
OnlyBlocks   == UNCHANGED <<solutionVars, mapsVars, solveVars, trackerVars>>
OnlyMaps     == UNCHANGED <<solutionVars, blockVars, solveVars, trackerVars>>
OnlySolve    == UNCHANGED <<solutionVars, blockVars, mapsVars, trackerVars>>
OnlyTracker  == UNCHANGED <<solutionVars, blockVars, mapsVars, solveVars>>

\* Nothing printed yet.
NoLine == [complete |-> 0, incomplete |-> 0, tasks_done |-> 0, newline |-> FALSE]

\* The tracker thread is not followed.
TrackerIdle ==
    /\ t_pc = "off" /\ t_tasks_done = 0 /\ complete = 0 /\ incomplete = 0
    /\ tick_modulo = 0 /\ redraw = FALSE /\ t_out = NoLine


(***************************************************************************)
(* i32 arithmetic                                                          *)
(***************************************************************************)
MaxI32 == 2147483647
MinI32 == -2147483647 - 1

\* The element of a one-element set.  {F(v) : v \in {e}} evaluates e once and
\* gives its value the name v.
Only(set) == CHOOSE x \in set : TRUE

Abs(x) == IF x < 0 THEN 0 - x ELSE x
Max(x, y) == IF x >= y THEN x ELSE y
Min(x, y) == IF x <= y THEN x ELSE y

\* x + y leaves the i32 range.
AddOverflows(x, y) ==
    \/ y > 0 /\ x > MaxI32 - y
    \/ y < 0 /\ x < MinI32 - y

\* x + y modulo 2^32, as an i32 (no intermediate value leaves the range).
Add32(x, y) ==
    IF ~AddOverflows(x, y) THEN x + y
    ELSE IF y > 0 THEN ((x - MaxI32 - 1) + y) - MaxI32 - 1
    ELSE ((x + MaxI32 + 1) + y) + MaxI32 + 1

\* x *= -1 on an i32 overflows exactly for i32::MIN; the wrapped product of
\* i32::MIN and -1 is i32::MIN.
NegOverflows(x) == x = MinI32
Neg32(x) == IF x = MinI32 THEN MinI32 ELSE 0 - x

SubOverflows(x, y) ==
    IF y = MinI32 THEN x >= 0 ELSE AddOverflows(x, 0 - y)
Sub32(x, y) ==
    IF y = MinI32
    THEN (IF x >= 0 THEN x + MinI32 ELSE x - MinI32)
    ELSE Add32(x, 0 - y)

\* x * y leaves the i32 range.
MulOverflows(x, y) ==
    IF x = 0 \/ y = 0 \/ x = 1 \/ y = 1 THEN FALSE
    ELSE IF x = MinI32 \/ y = MinI32 THEN TRUE
    ELSE IF Abs(x) <= MaxI32 \div Abs(y) THEN FALSE
    ELSE ~ ( /\ (x < 0) # (y < 0)
             /\ Abs(x) = (MaxI32 \div Abs(y)) + 1
             /\ MaxI32 % Abs(y) = Abs(y) - 1 )

\* x * y modulo 2^32, as an i32, by doubling.
RECURSIVE Mul32(_, _)
Mul32(x, y) ==
    IF y = 0 \/ x = 0 THEN 0
    ELSE IF y = MinI32 THEN (IF x % 2 = 0 THEN 0 ELSE MinI32)
    ELSE IF y < 0 THEN Mul32(Neg32(x), 0 - y)
    ELSE LET h == Mul32(Add32(x, x), y \div 2)
         IN  IF y % 2 = 1 THEN Add32(h, x) ELSE h

(***************************************************************************)
(* f32 arithmetic, as far as get_block_lengths and track_progress use it.  *)
(* An f32 has 24 significant bits; every operation rounds its exact result *)
(* to the nearest f32, ties to the even significand.                       *)
(***************************************************************************)
F32Bits == 24

RECURSIVE Pow2(_)
Pow2(n) == IF n = 0 THEN 1 ELSE 2 * Pow2(n - 1)

\* Number of binary digits of n >= 0.
RECURSIVE BitLen(_)
BitLen(n) == IF n = 0 THEN 0 ELSE 1 + BitLen(n \div 2)

\* n >= 0 rounded to 24 significant bits, ties to even.
RoundSig(n) ==
    LET len == BitLen(n)
    IN  IF len <= F32Bits THEN n
        ELSE LET u   == Pow2(len - F32Bits)
                 m   == n \div u
                 rem == n % u
                 up  == 2 * rem > u \/ (2 * rem = u /\ m % 2 = 1)
             IN  IF up THEN (m + 1) * u ELSE m * u

\* `n as f32` for an i32 n: the nearest f32, which is an integer.
F32OfI32(n) ==
    IF n = MinI32 THEN MinI32
    ELSE IF n < 0 THEN 0 - RoundSig(0 - n)
    ELSE RoundSig(n)

\* f32 values that are not whole numbers in the i32 range are kept as
\* [kind, val]: kind "fin" with the integer val, or "inf", "-inf", "nan".
Fin(v)  == [kind |-> "fin", val |-> v]
PosInf  == [kind |-> "inf", val |-> 0]
NegInf  == [kind |-> "-inf", val |-> 0]
NaN     == [kind |-> "nan", val |-> 0]

CeilDiv(a, b)  == IF a % b = 0 THEN a \div b ELSE (a \div b) + 1
FloorDiv(a, b) == a \div b

\* The significand of a / b (a, b > 0) to 24 bits by long division:
\* [m, t, rem] with a / b = (m + rem / b) / 2^t exactly, where m has 24 bits
\* or t reached the cap.
RECURSIVE LongDiv(_, _, _, _)
LongDiv(m, rem, b, t) ==
    IF BitLen(m) >= F32Bits \/ t >= 30 THEN [m |-> m, t |-> t, rem |-> rem]
    ELSE Only({LongDiv(2 * m + bit, 2 * rem - bit * b, b, t + 1) :
                 bit \in {IF 2 * rem >= b THEN 1 ELSE 0}})

\* The f32 quotient a / b of whole f32 values a >= 0, b > 0, as the pair
\* [num, den]: num / den with den a power of two.
RoundedLongDiv(d, b) ==
    LET up == 2 * d.rem > b \/ (2 * d.rem = b /\ d.m % 2 = 1)
    IN  [num |-> IF up THEN d.m + 1 ELSE d.m, den |-> Pow2(d.t)]

F32Quot(a, b) ==
    LET q0 == a \div b
        r0 == a % b
    IN  IF BitLen(q0) >= F32Bits
        THEN \* the quotient is rounded to a whole number
             LET u    == Pow2(BitLen(q0) - F32Bits)
                 m    == q0 \div u
                 lo   == q0 % u
                 up   == \/ 2 * lo > u
                         \/ 2 * lo = u /\ (r0 > 0 \/ m % 2 = 1)
                         \/ u = 1 /\ (2 * r0 > b \/ (2 * r0 = b /\ m % 2 = 1))
             IN  [num |-> (IF up THEN m + 1 ELSE m) * u, den |-> 1]
        ELSE Only({RoundedLongDiv(d, b) : d \in {LongDiv(q0, r0, b, 0)}})

\* (a / b).ceil() and (a / b).floor() for whole f32 values a and b >= 0.
\* Division by zero gives an infinity, 0.0 / 0.0 gives NaN.
CeilQuotF32(a, b) ==
    IF b = 0 THEN (IF a > 0 THEN PosInf ELSE IF a < 0 THEN NegInf ELSE NaN)
    ELSE IF a >= 0
         THEN LET q == F32Quot(a, b) IN Fin(CeilDiv(q.num, q.den))
         ELSE LET q == F32Quot(0 - a, b) IN Fin(0 - FloorDiv(q.num, q.den))
FloorQuotF32(a, b) ==
    IF b = 0 THEN (IF a > 0 THEN PosInf ELSE IF a < 0 THEN NegInf ELSE NaN)
    ELSE IF a >= 0
         THEN LET q == F32Quot(a, b) IN Fin(FloorDiv(q.num, q.den))
         ELSE LET q == F32Quot(0 - a, b) IN Fin(0 - CeilDiv(q.num, q.den))

\* An error rate is an f32 num / den with den a power of two and num below
\* 2^24, so that it is an f32 exactly.  (e * x).ceil() for a whole f32 x >= 0:
\* the exact product is num * x / den, and rounding it to 24 significant
\* bits rounds num * x (den only shifts the exponent).
CeilProdF32(e, x) == CeilDiv(RoundSig(e.num * x), e.den)

\* `v as i32` for an f32 v.  Since Rust 1.45 the cast saturates and NaN gives
\* 0; before, a value outside the range was undefined behaviour, which on
\* x86 gave i32::MIN.
CastI32(v, saturating) ==
    IF v.kind = "fin" THEN v.val
    ELSE IF ~saturating THEN MinI32
    ELSE IF v.kind = "inf" THEN MaxI32
    ELSE IF v.kind = "-inf" THEN MinI32
    ELSE 0

(***************************************************************************)
(* structs.rs: Orientation and Solution                                    *)
(***************************************************************************)
Normal   == "Normal"
Reversed == "Reversed"
Orientations == {Normal, Reversed}

\* #[derive(PartialOrd, Ord, Hash)] on the enum: the variants in declaration order.
OrientationDiscriminant(o) == IF o = Normal THEN 0 ELSE 1

\* impl fmt::Display for Orientation
OrientationDisplay(o) == IF o = Normal THEN "N" ELSE "I"

Less    == "Less"
Equal   == "Equal"
Greater == "Greater"

\* Ord::cmp on integers.
CmpInt(x, y) == IF x < y THEN Less ELSE IF x > y THEN Greater ELSE Equal

\* Ord::cmp on tuples: the first component that differs decides.
ThenCmp(c, d) == IF c # Equal THEN c ELSE d

\* Ord::cmp on str / [u8]: bytewise, a proper prefix is smaller.
RECURSIVE CmpBytes(_, _)
CmpBytes(x, y) ==
    IF x = <<>> /\ y = <<>> THEN Equal
    ELSE IF x = <<>> THEN Less
    ELSE IF y = <<>> THEN Greater
    ELSE ThenCmp(CmpInt(Head(x), Head(y)), CmpBytes(Tail(x), Tail(y)))

\* v_flip without the swap of the two overlaps.
VFlipDropsSwap(s) ==
    [s EXCEPT !.overhang_left_a  = Neg32(s.overhang_left_a),
              !.overhang_right_b = Neg32(s.overhang_right_b),
              !.id_a = s.id_b, !.id_b = s.id_a]
\* Solution::v_flip, wrapping arithmetic.
v_flip(s) ==
    [s EXCEPT !.overhang_left_a  = Neg32(s.overhang_left_a),
              !.overhang_right_b = Neg32(s.overhang_right_b),
              !.id_a = s.id_b, !.id_b = s.id_a,
              !.overlap_a = s.overlap_b, !.overlap_b = s.overlap_a]

\* Solution::un_reverse, wrapping arithmetic.
un_reverse(s) ==
    [s EXCEPT !.overhang_left_a  = Neg32(s.overhang_right_b),
              !.overhang_right_b = Neg32(s.overhang_left_a)]

\* Both methods multiply both overhangs by -1: with overflow checks the
\* multiplication of i32::MIN panics.
FlipPanics(s, checks) ==
    checks /\ (NegOverflows(s.overhang_left_a) \/ NegOverflows(s.overhang_right_b))

\* A comparison of the first six fields only.
SolutionCmpSkipsOverlapB(x, y) ==
    ThenCmp(CmpInt(x.id_a, y.id_a),
    ThenCmp(CmpInt(x.id_b, y.id_b),
    ThenCmp(CmpInt(OrientationDiscriminant(x.orientation),
                   OrientationDiscriminant(y.orientation)),
    ThenCmp(CmpInt(x.overhang_left_a, y.overhang_left_a),
    ThenCmp(CmpInt(x.overhang_right_b, y.overhang_right_b),
            CmpInt(x.overlap_a, y.overlap_a))))))
\* impl Ord for Solution
SolutionCmp(x, y) ==
    ThenCmp(CmpInt(x.id_a, y.id_a),
    ThenCmp(CmpInt(x.id_b, y.id_b),
    ThenCmp(CmpInt(OrientationDiscriminant(x.orientation),
                   OrientationDiscriminant(y.orientation)),
    ThenCmp(CmpInt(x.overhang_left_a, y.overhang_left_a),
    ThenCmp(CmpInt(x.overhang_right_b, y.overhang_right_b),
    ThenCmp(CmpInt(x.overlap_a, y.overlap_a),
            CmpInt(x.overlap_b, y.overlap_b)))))))

\* impl PartialEq for Solution
SolutionEq(x, y) ==
    /\ x.id_a = y.id_a
    /\ x.id_b = y.id_b
    /\ x.orientation = y.orientation
    /\ x.overhang_left_a = y.overhang_left_a
    /\ x.overhang_right_b = y.overhang_right_b
    /\ x.overlap_a = y.overlap_a
    /\ x.overlap_b = y.overlap_b

\* impl Hash for Solution: the values written to the hasher, in order.
SolutionHash(x) ==
    <<x.id_a, x.id_b, OrientationDiscriminant(x.orientation),
      x.overlap_a, x.overlap_b, x.overhang_left_a, x.overhang_right_b>>

(***************************************************************************)
(* SpecSolution: a Solution, the two methods applied to it, one comparison *)
(***************************************************************************)
MaxSolId     == 1     \* ids 0..MaxSolId
MaxOverhang  == 1     \* overhangs -MaxOverhang..MaxOverhang, and i32::MIN
MaxOverlap   == 2     \* overlaps 1..MaxOverlap
MaxErrors    == 1     \* errors 0..MaxErrors
MaxOps       == 2     \* methods applied to one Solution

OverhangValues == (0 - MaxOverhang .. MaxOverhang) \cup {MinI32}
Cigars == {"", "M"}

SolutionDomain ==
    [id_a : 0 .. MaxSolId, id_b : 0 .. MaxSolId, orientation : Orientations,
     overhang_left_a : OverhangValues, overhang_right_b : OverhangValues,
     overlap_a : 1 .. MaxOverlap, overlap_b : 1 .. MaxOverlap,
     errors : 0 .. MaxErrors, cigar : {"M"}]

\* The Solutions that differ from s in at most one field.
Variants(s) ==
    {s}
    \cup {[s EXCEPT !.id_a = v] : v \in 0 .. MaxSolId}
    \cup {[s EXCEPT !.id_b = v] : v \in 0 .. MaxSolId}
    \cup {[s EXCEPT !.orientation = v] : v \in Orientations}
    \cup {[s EXCEPT !.overhang_left_a = v] : v \in OverhangValues}
    \cup {[s EXCEPT !.overhang_right_b = v] : v \in OverhangValues}
    \cup {[s EXCEPT !.overlap_a = v] : v \in 1 .. MaxOverlap}
    \cup {[s EXCEPT !.overlap_b = v] : v \in 1 .. MaxOverlap}
    \cup {[s EXCEPT !.errors = v] : v \in 0 .. MaxErrors}
    \cup {[s EXCEPT !.cigar = v] : v \in Cigars}
    \cup {[s EXCEPT !.errors = v, !.cigar = c] : v \in 0 .. MaxErrors, c \in Cigars}

ZeroSolution ==
    [id_a |-> 0, id_b |-> 0, orientation |-> Normal, overhang_left_a |-> 0,
     overhang_right_b |-> 0, overlap_a |-> 0, overlap_b |-> 0, errors |-> 0,
     cigar |-> ""]
NotCompared ==
    [done |-> FALSE, ord |-> Equal, eq |-> FALSE, hash_a |-> <<>>, hash_b |-> <<>>]

SolutionIdle ==
    /\ s_orig = ZeroSolution /\ s_cur = ZeroSolution /\ s_panic = FALSE
    /\ s_ops = <<>> /\ s_other = ZeroSolution /\ s_cmp = NotCompared
    /\ s_checks = FALSE

InitSolution ==
    /\ s_orig \in SolutionDomain
    /\ s_cur = s_orig
    /\ s_panic = FALSE
    /\ s_ops = <<>>
    /\ s_other \in Variants(s_orig)
    /\ s_cmp = NotCompared
    /\ s_checks \in BOOLEAN

VFlip ==
    /\ ~s_panic
    /\ ~s_cmp.done
    /\ Len(s_ops) < MaxOps
    /\ IF FlipPanics(s_cur, s_checks)
       THEN s_panic' = TRUE /\ s_cur' = s_cur
       ELSE s_panic' = FALSE /\ s_cur' = v_flip(s_cur)
    /\ s_ops' = Append(s_ops, "v_flip")
    /\ UNCHANGED <<s_orig, s_other, s_cmp, s_checks>>
    /\ OnlySolution

UnReverse ==
    /\ ~s_panic
    /\ ~s_cmp.done
    /\ Len(s_ops) < MaxOps
    /\ IF FlipPanics(s_cur, s_checks)
       THEN s_panic' = TRUE /\ s_cur' = s_cur
       ELSE s_panic' = FALSE /\ s_cur' = un_reverse(s_cur)
    /\ s_ops' = Append(s_ops, "un_reverse")
    /\ UNCHANGED <<s_orig, s_other, s_cmp, s_checks>>
    /\ OnlySolution

\* a.cmp(&b), a == b and the two hash() calls, on the Solution as constructed.
Compare ==
    /\ s_ops = <<>>
    /\ ~s_cmp.done
    /\ s_cmp' = [done   |-> TRUE,
                 ord    |-> SolutionCmp(s_orig, s_other),
                 eq     |-> SolutionEq(s_orig, s_other),
                 hash_a |-> SolutionHash(s_orig),
                 hash_b |-> SolutionHash(s_other)]
    /\ UNCHANGED <<s_orig, s_cur, s_panic, s_ops, s_other, s_checks>>
    /\ OnlySolution

(***************************************************************************)
(* modes/kucherov.rs: KucherovMode::get_block_lengths                      *)
(***************************************************************************)
\* n copies of x (for _ in 0..n { push(x) }): none when n <= 0.
Repeat(x, n) == [i \in 1 .. Max(n, 0) |-> x]

\* iter().sum::<i32>(): the wrapped sum, and whether a partial sum overflowed.
RECURSIVE Sum32(_)
Sum32(seq) == IF seq = <<>> THEN 0 ELSE Add32(Sum32(Tail(seq)), Head(seq))
RECURSIVE SumOverflows(_)
SumOverflows(seq) ==
    IF seq = <<>> THEN FALSE
    ELSE SumOverflows(Tail(seq)) \/ AddOverflows(Sum32(Tail(seq)), Head(seq))

\* The lengths l in thresh..patt_len+1 at which the error budget grows:
\* (err_rate*(f_len-1.0)).ceil() < (err_rate*f_len).ceil(), f_len = l as f32.
BudgetGrowsAt(err_rate, l) ==
    LET f_len == F32OfI32(l)
    IN  CeilProdF32(err_rate, RoundSig(f_len - 1)) < CeilProdF32(err_rate, f_len)

GrowthLengths(patt_len, err_rate, thresh) ==
    SelectSeq([i \in 1 .. (patt_len - thresh + 1) |-> thresh + i - 1],
              LAMBDA l : BudgetGrowsAt(err_rate, l))

\* The value or panic of get_block_lengths.  build.overflow_checks: integer
\* overflow panics (debug profile) or wraps (release); build.saturating_casts:
\* see CastI32.  status is "ok" when the function returns block_lengths,
\* otherwise the panic that ended it.  The function is written as one
\* operator per local variable, in the order the code assigns them.

\* Anterior blocks that stop one growth length short.
AnteriorBlocksStopShort(ls) == [i \in 1 .. Len(ls) - 2 |-> ls[i + 1] - ls[i]]

\* for i in 0..ls.len()-1 { block_lengths.push(ls[i+1] - ls[i]) }
AnteriorBlocks(ls) == [i \in 1 .. Len(ls) - 1 |-> ls[i + 1] - ls[i]]

\* from `let first_half_len` to the end
BlocksWithP(ls, k, big_l, p, thresh, build, overflow_so_far) ==
    LET first_half_len == Add32(Mul32(p, k - 1), big_l)
        longer_blocks_in_first_half == Sub32(ls[1] - 1, first_half_len)
        shorter == Sub32(k - 1, longer_blocks_in_first_half)
        overflow ==
            \/ overflow_so_far
            \/ MulOverflows(p, k - 1)
            \/ AddOverflows(Mul32(p, k - 1), big_l)
            \/ SubOverflows(ls[1] - 1, first_half_len)
            \/ SubOverflows(k - 1, longer_blocks_in_first_half)
            \/ longer_blocks_in_first_half > 0 /\ AddOverflows(p, 1)
        block_lengths ==
            Repeat(p, shorter)
            \o Repeat(Add32(p, 1), longer_blocks_in_first_half)
            \o <<big_l>>
            \o AnteriorBlocks(ls)
        first_k == SubSeq(block_lengths, 1, k)
        out(st) == [status |-> st, blocks |-> block_lengths, ls |-> ls, k |-> k]
    IN  IF build.overflow_checks /\ overflow THEN out("panic_overflow")
        ELSE IF k > Len(block_lengths) THEN out("panic_slice")
        ELSE IF build.overflow_checks /\ SumOverflows(first_k) THEN out("panic_overflow")
        ELSE IF Sum32(first_k) # ls[1] - 1 THEN out("assert_sum")
        ELSE IF ~(block_lengths[k] >= ls[1] - thresh) THEN out("assert_l_block")
        ELSE out("ok")

\* let p = ((ls[0]-1-big_l) as f32 / ((k-1) as f32)).floor() as i32
BlocksWithBigL(ls, k, big_l, thresh, build, overflow_so_far) ==
    Only({BlocksWithP(ls, k, big_l, p, thresh, build,
                      overflow_so_far \/ SubOverflows(ls[1] - 1, big_l)) :
            p \in {CastI32(FloorQuotF32(F32OfI32(Sub32(ls[1] - 1, big_l)),
                                        F32OfI32(k - 1)),
                           build.saturating_casts)}})

\* let big_l = max((((ls[0]-1) as f32)/(k as f32)).ceil() as i32, ls[0] - thresh)
BlocksWithK(ls, k, thresh, build, overflow_so_far) ==
    Only({BlocksWithBigL(ls, k, big_l, thresh, build, overflow_so_far) :
            big_l \in {Max(CastI32(CeilQuotF32(F32OfI32(ls[1] - 1), F32OfI32(k)),
                                   build.saturating_casts),
                           ls[1] - thresh)}})

\* let k = max(1, (err_rate*(ls[0] as f32)).ceil() as i32) + self.s_param - 1
BlocksWithLs(s_param, ls, err_rate, thresh, build, overflow_so_far) ==
    Only({BlocksWithK(ls, k, thresh, build, overflow_so_far) :
            k \in {Max(1, CeilProdF32(err_rate, F32OfI32(ls[1]))) + s_param - 1}})

get_block_lengths(s_param, patt_len, err_rate, thresh, build) ==
    IF patt_len < thresh
    THEN [status |-> "ok", blocks |-> <<patt_len>>, ls |-> <<>>, k |-> 0]
    ELSE Only({BlocksWithLs(s_param, ls, err_rate, thresh, build,
                            AddOverflows(patt_len, 1)) :
                 ls \in {Append(GrowthLengths(patt_len, err_rate, thresh),
                                Add32(patt_len, 1))}})

(***************************************************************************)
(* SpecBlocks: one call of get_block_lengths                               *)
(***************************************************************************)
MaxPattLen   == 8     \* small pattern lengths 0..MaxPattLen
MaxThresh    == 8     \* thresholds 1..MaxThresh
MaxS         == 3     \* Kucherov's S in 1..MaxS
ErrRateBits  == 3     \* error rates n / 2^ErrRateBits, 0 <= n < 2^ErrRateBits
MaxPastExact == 3     \* long patterns: up to 2^24 + MaxPastExact
MaxGap       == 1     \* long patterns: thresh in patt_len - MaxGap .. patt_len

ErrRates ==
    {[num |-> n, den |-> Pow2(ErrRateBits)] : n \in 0 .. Pow2(ErrRateBits) - 1}
\* 2^-30: a rate whose budget never grows over the long patterns.
TinyErrRate == [num |-> 1, den |-> Pow2(F32Bits + 6)]

Builds == [overflow_checks : BOOLEAN, saturating_casts : BOOLEAN]

SmallBlockInputs ==
    [s_param : 1 .. MaxS, patt_len : 0 .. MaxPattLen, err_rate : ErrRates,
     thresh : 1 .. MaxThresh, build : Builds]

\* Patterns around 2^24 bytes, where i32 -> f32 stops being exact.
LongBlockInputs ==
    {[s_param |-> s, patt_len |-> m, err_rate |-> TinyErrRate, thresh |-> m - g,
      build |-> bld] :
        s \in 1 .. MaxS,
        m \in Pow2(F32Bits) - 1 .. Pow2(F32Bits) + MaxPastExact,
        g \in 0 .. MaxGap,
        bld \in Builds}

NoBlocks == [done |-> FALSE, status |-> "ok", blocks |-> <<>>, ls |-> <<>>, k |-> 0]
NoBlockInput ==
    [s_param |-> 1, patt_len |-> 0, err_rate |-> [num |-> 0, den |-> 1],
     thresh |-> 1, build |-> [overflow_checks |-> FALSE, saturating_casts |-> TRUE]]

BlocksIdle == b_in = NoBlockInput /\ b_out = NoBlocks

InitBlocks ==
    /\ b_in \in SmallBlockInputs \cup LongBlockInputs
    /\ b_out = NoBlocks

GetBlockLengths ==
    /\ ~b_out.done
    /\ \E r \in {get_block_lengths(b_in.s_param, b_in.patt_len, b_in.err_rate,
                                     b_in.thresh, b_in.build)} :
         b_out' = [done |-> TRUE, status |-> r.status, blocks |-> r.blocks,
                   ls |-> r.ls, k |-> r.k]
    /\ UNCHANGED b_in
    /\ OnlyBlocks

(***************************************************************************)
(* prepare.rs: read_and_prepare; structs.rs: Maps                          *)
(***************************************************************************)
\* Vec::reverse
RECURSIVE Reverse(_)
Reverse(seq) == IF seq = <<>> THEN <<>> ELSE Append(Reverse(Tail(seq)), Head(seq))

\* str_vec.retain(|c| *c != 'N')
RetainNotN(seq) == SelectSeq(seq, LAMBDA c : c # "N")

\* BidirMap::insert: any pair holding either value is dropped, the new pair is
\* pushed at the end.
BdInsert(bd, id, index) ==
    Append(SelectSeq(bd, LAMBDA pr : pr[1] # id /\ pr[2] # index), <<id, index>>)

\* BidirMap::get_by_first as a set: the indexes paired with id (one or none).
GetByFirst(bd, id) == {bd[i][2] : i \in {j \in 1 .. Len(bd) : bd[j][1] = id}}

\* The body of `for record in reader.records()` for one record rec, on the
\* state st = [text, id2name_vec, id2index_bdmap, stored].
PushString(st, str_vec, name) ==
    LET id    == Len(st.id2name_vec)
        text1 == Append(st.text, "$")
        index == Len(text1)
    IN  [text           |-> text1 \o str_vec,
         id2index_bdmap |-> BdInsert(st.id2index_bdmap, id, index),
         id2name_vec    |-> Append(st.id2name_vec, name),
         stored         |-> Append(st.stored, str_vec)]

ReadOneRecord(st, rec, cfg) ==
    IF rec.id = <<>> THEN st
    ELSE LET name    == rec.id[1]
             cleaned == IF ~cfg.n_alphabet THEN RetainNotN(rec.seq) ELSE rec.seq
             str_vec == Reverse(cleaned)
             st1     == PushString(st, str_vec, name)
         IN  IF cfg.reversals THEN PushString(st1, Reverse(str_vec), name)
             ELSE st1

\* An end index that takes in the separator of the next string.
GetEndIndexKeepsSeparator(mp, id) ==
    IF id = mp.num_ids - 1 THEN Len(mp.text) - 1
    ELSE (CHOOSE x \in GetByFirst(mp.id2index_bdmap, id + 1) : TRUE)
\* Maps::get_end_index (0-based, exclusive)
get_end_index(mp, id) ==
    IF id = mp.num_ids - 1 THEN Len(mp.text) - 1
    ELSE (CHOOSE x \in GetByFirst(mp.id2index_bdmap, id + 1) : TRUE) - 1

\* The accessors panic (assert!, expect, slice bounds) exactly when:
AccessorPanics(mp, id) ==
    \/ ~(id < mp.num_ids)
    \/ GetByFirst(mp.id2index_bdmap, id) = {}
    \/ id # mp.num_ids - 1 /\ GetByFirst(mp.id2index_bdmap, id + 1) = {}

\* Maps::get_string: &text[start..end], as a sequence.
get_string(mp, id) ==
    LET start == CHOOSE x \in GetByFirst(mp.id2index_bdmap, id) : TRUE
    IN  SubSeq(mp.text, start + 1, get_end_index(mp, id))

\* Maps::get_length
get_length(mp, id) ==
    get_end_index(mp, id) - (CHOOSE x \in GetByFirst(mp.id2index_bdmap, id) : TRUE)

\* Maps::find_occurrence_containing: the loop over id2index_bdmap.iter().
RECURSIVE FindFrom(_, _, _)
FindFrom(pairs, index, best) ==
    IF pairs = <<>> THEN best
    ELSE LET id  == Head(pairs)[1]
             ind == Head(pairs)[2]
         IN  FindFrom(Tail(pairs), index,
                      IF ind <= index /\ ind > best[2] THEN <<id, ind>> ELSE best)

\* A scan that stops at the first offset not beyond the index.
FindFirstNotBest(mp, index) ==
    LET hits == SelectSeq(mp.id2index_bdmap, LAMBDA pr : pr[2] <= index /\ pr[2] > 1)
    IN  IF hits = <<>> THEN <<0, 1>> ELSE Head(hits)

find_occurrence_containing(mp, index) ==
    FindFrom(mp.id2index_bdmap, index, <<0, 1>>)

\* Maps::get_name_for
get_name_for(name_vec, id) == name_vec[id + 1]

(***************************************************************************)
(* SpecMaps: the loader reads a file record by record, then Maps is queried *)
(***************************************************************************)
MaxRecords == 2     \* records in the input file

\* Names are byte strings.
NameA  == <<97>>
NameB  == <<98>>
NameAA == <<97, 97>>

\* Sequences of a record as the FASTA parser delivers them (it does not look
\* at the bytes).
SeqPool ==
    { <<>>, <<"A">>, <<"N">>, <<"A", "C">>, <<"A", "N", "C">>,
      <<"$">>, <<"A", "#">>, <<"C", "$", "A">> }

\* record.id() is None for a record with an empty header.
Records == [id : {<<>>, <<NameA>>}, seq : SeqPool]

TheMaps ==
    [text |-> text, id2name_vec |-> id2name_vec,
     id2index_bdmap |-> id2index_bdmap, num_ids |-> num_ids]

NoQuery == [op |-> "none", arg |-> 0, panic |-> FALSE, id |-> 0, index |-> 0,
            str |-> <<>>, len |-> 0]

MapsIdle ==
    /\ m_cfg = [reversals |-> FALSE, n_alphabet |-> FALSE]
    /\ m_pc = "idle" /\ m_read = 0 /\ m_stored = <<>>
    /\ text = <<>> /\ id2name_vec = <<>> /\ id2index_bdmap = <<>>
    /\ num_ids = 0 /\ m_query = NoQuery

InitMaps ==
    /\ m_cfg \in [reversals : BOOLEAN, n_alphabet : BOOLEAN]
    /\ m_pc = "reading" /\ m_read = 0 /\ m_stored = <<>>
    /\ text = <<>> /\ id2name_vec = <<>> /\ id2index_bdmap = <<>>
    /\ num_ids = 0 /\ m_query = NoQuery

\* One turn of the loop over reader.records().
ReadRecord ==
    /\ m_pc = "reading"
    /\ m_read < MaxRecords
    /\ \E rec \in Records :
         LET st == ReadOneRecord([text |-> text, id2name_vec |-> id2name_vec,
                                  id2index_bdmap |-> id2index_bdmap,
                                  stored |-> m_stored], rec, m_cfg)
         IN  /\ text' = st.text
             /\ id2name_vec' = st.id2name_vec
             /\ id2index_bdmap' = st.id2index_bdmap
             /\ m_stored' = st.stored
    /\ m_read' = m_read + 1
    /\ UNCHANGED <<m_cfg, m_pc, num_ids, m_query>>
    /\ OnlyMaps

\* End of file: the terminator is pushed and Maps is returned.
FinishRead ==
    /\ m_pc = "reading"
    /\ text' = Append(text, "#")
    /\ num_ids' = Len(id2name_vec)
    /\ m_pc' = "ready"
    /\ UNCHANGED <<m_cfg, m_read, m_stored, id2name_vec, id2index_bdmap, m_query>>
    /\ OnlyMaps

\* maps.get_string(id) and maps.get_length(id)
GetString ==
    /\ m_pc = "ready"
    /\ \E id \in 0 .. num_ids :
         m_query' =
            IF AccessorPanics(TheMaps, id)
            THEN [NoQuery EXCEPT !.op = "get_string", !.arg = id, !.panic = TRUE]
            ELSE [NoQuery EXCEPT !.op = "get_string", !.arg = id,
                                 !.str = get_string(TheMaps, id),
                                 !.len = get_length(TheMaps, id)]
    /\ UNCHANGED <<m_cfg, m_pc, m_read, m_stored, text, id2name_vec,
                   id2index_bdmap, num_ids>>
    /\ OnlyMaps

\* maps.find_occurrence_containing(index)
FindOccurrenceContaining ==
    /\ m_pc = "ready"
    /\ \E g \in 0 .. Len(text) - 1 :
         LET r == find_occurrence_containing(TheMaps, g)
         IN  m_query' = [NoQuery EXCEPT !.op = "find", !.arg = g,
                                        !.id = r[1], !.index = r[2]]
    /\ UNCHANGED <<m_cfg, m_pc, m_read, m_stored, text, id2name_vec,
                   id2index_bdmap, num_ids>>
    /\ OnlyMaps

(***************************************************************************)
(* main.rs: solve(), its aggregator, solution_comparator, write_solution   *)
(***************************************************************************)
\* solution_comparator: the name tuple, names compared as strings.
solution_comparator(x, y, name_vec) ==
    ThenCmp(CmpBytes(get_name_for(name_vec, x.id_a), get_name_for(name_vec, y.id_a)),
    ThenCmp(CmpBytes(get_name_for(name_vec, x.id_b), get_name_for(name_vec, y.id_b)),
    ThenCmp(CmpInt(OrientationDiscriminant(x.orientation),
                   OrientationDiscriminant(y.orientation)),
    ThenCmp(CmpInt(x.overhang_left_a, y.overhang_left_a),
    ThenCmp(CmpInt(x.overhang_right_b, y.overhang_right_b),
    ThenCmp(CmpInt(x.overlap_a, y.overlap_a),
            CmpInt(x.overlap_b, y.overlap_b)))))))

\* Vec::sort_by: a stable sort.  Each element is inserted behind the elements
\* that do not compare Greater than it.
RECURSIVE InsertSorted(_, _, _)
InsertSorted(sorted, x, name_vec) ==
    IF sorted = <<>> THEN <<x>>
    ELSE IF solution_comparator(Head(sorted), x, name_vec) = Greater
         THEN <<x>> \o sorted
         ELSE <<Head(sorted)>> \o InsertSorted(Tail(sorted), x, name_vec)

RECURSIVE SortFrom(_, _, _)
SortFrom(sorted, rest, name_vec) ==
    IF rest = <<>> THEN sorted
    ELSE SortFrom(InsertSorted(sorted, Head(rest), name_vec), Tail(rest), name_vec)

\* The list left in aggregation order.
SortSkipped(list, name_vec) == list

sort_by(list, name_vec) == SortFrom(<<>>, list, name_vec)

\* Vec::dedup_by: an element equal (under the comparator) to the last one
\* kept is dropped.
RECURSIVE DedupFrom(_, _, _)
DedupFrom(kept, rest, name_vec) ==
    IF rest = <<>> THEN kept
    ELSE IF kept # <<>>
            /\ solution_comparator(Head(rest), kept[Len(kept)], name_vec) = Equal
         THEN DedupFrom(kept, Tail(rest), name_vec)
         ELSE DedupFrom(Append(kept, Head(rest)), Tail(rest), name_vec)

\* The list with its duplicates kept.
DedupSkipped(list, name_vec) == list

dedup_by(list, name_vec) == DedupFrom(<<>>, list, name_vec)

\* write_solution: the line format!() builds, field by field.
write_solution(sol, name_vec) ==
    <<get_name_for(name_vec, sol.id_a), get_name_for(name_vec, sol.id_b),
      OrientationDisplay(sol.orientation), sol.overhang_left_a,
      sol.overhang_right_b, sol.overlap_a, sol.overlap_b, sol.errors>>

WriteAll(list, name_vec) == [i \in 1 .. Len(list) |-> write_solution(list[i], name_vec)]

\* The orders in which `for sol in solutions` can visit a HashSet.
IterationOrders(set) ==
    {seq \in [1 .. Cardinality(set) -> set] :
        \A i, j \in 1 .. Cardinality(set) : i # j => seq[i] # seq[j]}

(***************************************************************************)
(* Spec: one run of solve() over a fixed input                             *)
(***************************************************************************)
MaxWorkers   == 2     \* config.worker_threads in 1..MaxWorkers
MaxSolutions == 2     \* solutions of all tasks together

\* id2name_vec of the input: two ids of one name (one record with
\* --reversals, or two records of one name), names against the id order, and
\* three ids.
NameVecs ==
    { <<NameA, NameA>>, <<NameB, NameA>>, <<NameA, NameAA, NameA>> }

Configs ==
    [greedy_output : BOOLEAN, track_progress : BOOLEAN,
     worker_threads : 1 .. MaxWorkers]

\* What solve_an_id(id) can hold when there are n ids: overlaps between id
\* and another id (self-hits are discarded), either of the two being id_a, in
\* either orientation, with an error count.
TaskPool(n, id) ==
    {x \in [id_a : 0 .. n - 1, id_b : 0 .. n - 1, orientation : Orientations,
            overhang_left_a : {1}, overhang_right_b : {1}, overlap_a : {2},
            overlap_b : {2}, errors : 0 .. MaxErrors, cigar : {""}] :
        x.id_a # x.id_b /\ id \in {x.id_a, x.id_b}}

RECURSIVE UpTo(_, _)
UpTo(pool, k) ==
    IF k = 0 THEN {{}}
    ELSE LET smaller == UpTo(pool, k - 1)
         IN  smaller \cup {t \cup {x} : t \in smaller, x \in pool}

\* A HashSet<Solution> holds no two equal Solutions.
IsHashSet(set) == \A x, y \in set : SolutionEq(x, y) => x = y

\* solve_an_id for every id of an input of n ids, as pairs <<id, solution>>.
TaskSolutions(n) ==
    LET pairs == UNION {{<<id, x>> : x \in TaskPool(n, id)} : id \in 0 .. n - 1}
        of(all, id) == {pr[2] : pr \in {q \in all : q[1] = id}}
    IN  {[i \in 1 .. n |-> of(all, i - 1)] :
            all \in {t \in UpTo(pairs, MaxSolutions) :
                        \A id \in 0 .. n - 1 : IsHashSet(of(t, id))}}

num_tasks == Len(names)

NoFirstRun ==
    [done |-> FALSE,
     config |-> [greedy_output |-> FALSE, track_progress |-> FALSE,
                 worker_threads |-> 1],
     lines |-> <<>>, written |-> <<>>]

SolveIdle ==
    /\ config = NoFirstRun.config /\ names = <<>> /\ task_sols = <<>>
    /\ pc = "idle" /\ id_iterator = 0 /\ working = {} /\ agg_pending = FALSE
    /\ complete_solution_list = <<>> /\ wrt_buf = <<>> /\ written = <<>>
    /\ tasks_done = 0 /\ run = 1 /\ first_run = NoFirstRun
    /\ TrackerIdle

\* solve() up to the start of the pipeline.
StartOfSolve ==
    /\ pc = "pipeline" /\ id_iterator = 0 /\ working = {} /\ agg_pending = FALSE
    /\ complete_solution_list = <<>> /\ wrt_buf = <<>> /\ written = <<>>
    /\ tasks_done = 0

InitSolve ==
    /\ config \in Configs
    /\ names \in NameVecs
    /\ task_sols \in TaskSolutions(Len(names))
    /\ StartOfSolve
    /\ run = 1 /\ first_run = NoFirstRun
    /\ TrackerIdle

\* cue::pipeline: a free worker thread takes the next id off id_iterator and
\* starts computation(id).
Dispatch ==
    /\ pc = "pipeline"
    /\ id_iterator < num_tasks
    /\ Cardinality(working) < config.worker_threads
    /\ working' = working \cup {id_iterator}
    /\ id_iterator' = id_iterator + 1
    /\ UNCHANGED <<config, names, task_sols, pc, agg_pending,
                   complete_solution_list, wrt_buf, written, tasks_done, run,
                   first_run>>
    /\ OnlySolve

\* A worker has finished solve_an_id(id); the aggregator closure takes its
\* HashSet and writes it out (greedy) or appends it to the list.
Aggregate ==
    /\ pc = "pipeline"
    /\ ~agg_pending
    /\ \E id \in working :
         /\ working' = working \ {id}
         /\ \E solutions \in IterationOrders(task_sols[id + 1]) :
              IF config.greedy_output
              THEN /\ wrt_buf' = wrt_buf \o WriteAll(solutions, names)
                   /\ written' = written \o solutions
                   /\ UNCHANGED complete_solution_list
              ELSE /\ complete_solution_list' = complete_solution_list \o solutions
                   /\ UNCHANGED <<wrt_buf, written>>
    /\ agg_pending' = TRUE
    /\ UNCHANGED <<config, names, task_sols, pc, id_iterator, tasks_done, run,
                   first_run>>
    /\ OnlySolve

\* A counter that moves by two for each task.
FetchAddTwice(counter, n) == counter + n + n

\* AtomicUsize::fetch_add
fetch_add(counter, n) == counter + n

\* The last statement of the aggregator closure.
CountTask ==
    /\ pc = "pipeline"
    /\ agg_pending
    /\ tasks_done' = IF config.track_progress THEN fetch_add(tasks_done, 1)
                                            ELSE tasks_done
    /\ agg_pending' = FALSE
    /\ UNCHANGED <<config, names, task_sols, pc, id_iterator, working,
                   complete_solution_list, wrt_buf, written, run, first_run>>
    /\ OnlySolve

\* cue::pipeline returns once every id went through the aggregator.
PipelineReturns ==
    /\ pc = "pipeline"
    /\ id_iterator = num_tasks /\ working = {} /\ ~agg_pending
    /\ pc' = "store"
    /\ UNCHANGED <<config, names, task_sols, id_iterator, working, agg_pending,
                   complete_solution_list, wrt_buf, written, tasks_done, run,
                   first_run>>
    /\ OnlySolve

\* A store of one more than the value.
StoreOneMore(counter, val) == val + 1

\* AtomicUsize::store
store(counter, val) == val

\* if config.track_progress { ATOMIC_TASKS_DONE.store(num_tasks, ..); .. }
StoreNumTasks ==
    /\ pc = "store"
    /\ tasks_done' = IF config.track_progress THEN store(tasks_done, num_tasks)
                                            ELSE tasks_done
    /\ pc' = IF config.track_progress THEN "join" ELSE "sort"
    /\ UNCHANGED <<config, names, task_sols, id_iterator, working, agg_pending,
                   complete_solution_list, wrt_buf, written, run, first_run>>
    /\ OnlySolve

\* progress_tracker.join(): returns once the tracker thread has exited (at
\* once where the thread is not followed).
JoinTracker ==
    /\ pc = "join"
    /\ t_pc \in {"exited", "off"}
    /\ pc' = "sort"
    /\ UNCHANGED <<config, names, task_sols, id_iterator, working, agg_pending,
                   complete_solution_list, wrt_buf, written, tasks_done, run,
                   first_run>>
    /\ OnlySolve

\* if !config.greedy_output { sort_by; dedup_by; write every solution }
SortDedupWrite ==
    /\ pc = "sort"
    /\ IF ~config.greedy_output
       THEN LET list == dedup_by(sort_by(complete_solution_list, names), names)
            IN  /\ complete_solution_list' = list
                /\ wrt_buf' = wrt_buf \o WriteAll(list, names)
                /\ written' = written \o list
       ELSE UNCHANGED <<complete_solution_list, wrt_buf, written>>
    /\ pc' = "done"
    /\ UNCHANGED <<config, names, task_sols, id_iterator, working, agg_pending,
                   tasks_done, run, first_run>>
    /\ OnlySolve

\* The tool is started again on the same input, with a configuration of its
\* own; the counter is a static of the new process.
RunAgain ==
    /\ pc = "done"
    /\ run = 1
    /\ first_run' = [done |-> TRUE, config |-> config, lines |-> wrt_buf,
                     written |-> written]
    /\ run' = 2
    /\ config' \in {c \in Configs : c.track_progress = config.track_progress}
    /\ pc' = "pipeline" /\ id_iterator' = 0 /\ working' = {}
    /\ agg_pending' = FALSE /\ complete_solution_list' = <<>>
    /\ wrt_buf' = <<>> /\ written' = <<>> /\ tasks_done' = 0
    /\ UNCHANGED <<names, task_sols>>
    /\ OnlySolve

(***************************************************************************)
(* main.rs: track_progress, the progress tracker thread                    *)
(***************************************************************************)
chars         == 30    \* let chars = 30
tick_out_freq == 8     \* let tick_out_freq = 8
MaxCells      == 40    \* complete.len() the model follows the bar up to

\* x > y for two f32 quotients [num, den] as F32Quot gives them: den a power
\* of two, num zero or of 24 bits (25 when rounded up to a power of two).
QuotGreater(x, y) ==
    IF x.num = 0 THEN FALSE
    ELSE IF y.num = 0 THEN TRUE
    ELSE IF x.den = y.den THEN x.num > y.num
    ELSE IF x.den < y.den
         THEN (IF y.den \div x.den > 2 THEN TRUE ELSE 2 * x.num > y.num)
         ELSE (IF x.den \div y.den > 2 THEN FALSE ELSE x.num > 2 * y.num)

\* The condition of the inner while loop:
\* tasks_done as f32 / (num_tasks as f32)
\*     > complete.len() as f32 / ((complete.len() + incomplete.len()) as f32)
\* A division by 0.0 gives NaN (0.0 / 0.0), which compares false with
\* everything, or +infinity, which is greater than every finite quotient.
BarBehind(done, total, n_complete, n_incomplete) ==
    LET a == F32OfI32(done)
        b == F32OfI32(total)
        c == F32OfI32(n_complete)
        d == F32OfI32(n_complete + n_incomplete)
    IN  IF b = 0 THEN (a > 0 /\ d > 0)
        ELSE IF d = 0 THEN FALSE
        ELSE QuotGreater(F32Quot(a, b), F32Quot(c, d))

\* String::pop on the bar: an empty String gives None and stays empty.
pop(len) == IF len = 0 THEN 0 ELSE len - 1

\* The line print!/println! writes, without the ETA (which depends on the
\* clock).
BarLine(newline) ==
    [complete |-> complete, incomplete |-> incomplete,
     tasks_done |-> t_tasks_done, newline |-> newline]

\* The thread enters track_progress: `if !enabled { return; }`, else the
\* locals are set up.
TrackerStart ==
    /\ t_pc = "start"
    /\ IF ~config.track_progress
       THEN /\ t_pc' = "exited"
            /\ UNCHANGED <<complete, incomplete, tick_modulo, redraw>>
       ELSE /\ t_pc' = "load"
            /\ complete' = 0
            /\ incomplete' = chars
            /\ tick_modulo' = 0
            /\ redraw' = TRUE
    /\ UNCHANGED <<t_tasks_done, t_out>>
    /\ OnlyTracker

\* let tasks_done = ATOMIC_TASKS_DONE.load(Ordering::Relaxed)
TrackerLoad ==
    /\ t_pc = "load"
    /\ t_tasks_done' = tasks_done
    /\ t_pc' = "fill"
    /\ UNCHANGED <<complete, incomplete, tick_modulo, redraw, t_out>>
    /\ OnlyTracker

\* One test of the inner while loop, and its body when the test succeeds.
TrackerFill ==
    /\ t_pc = "fill"
    /\ IF BarBehind(t_tasks_done, num_tasks, complete, incomplete)
       THEN /\ complete < MaxCells
            /\ redraw' = TRUE
            /\ tick_modulo' = 0 - 1
            /\ incomplete' = pop(incomplete)
            /\ complete' = complete + 1
            /\ UNCHANGED t_pc
       ELSE /\ t_pc' = "draw"
            /\ UNCHANGED <<complete, incomplete, tick_modulo, redraw>>
    /\ UNCHANGED <<t_tasks_done, t_out>>
    /\ OnlyTracker

\* The rest of the loop body: the redraw, then the final line and the break
\* when tasks_done >= num_tasks, else the sleep.
TrackerDraw ==
    /\ t_pc = "draw"
    /\ LET drawn == redraw \/ tick_modulo + 1 = tick_out_freq
           ended == t_tasks_done >= num_tasks
       IN  /\ tick_modulo' = IF drawn THEN 0 ELSE tick_modulo + 1
           /\ redraw' = IF drawn THEN FALSE ELSE redraw
           /\ t_out' = IF ended THEN BarLine(TRUE)
                       ELSE IF drawn THEN BarLine(FALSE)
                       ELSE t_out
           /\ t_pc' = IF ended THEN "exited" ELSE "sleep"
    /\ UNCHANGED <<t_tasks_done, complete, incomplete>>
    /\ OnlyTracker

\* thread::sleep(sleep_time) returns.
TrackerWakes ==
    /\ t_pc = "sleep"
    /\ t_pc' = "load"
    /\ UNCHANGED <<t_tasks_done, complete, incomplete, tick_modulo, redraw, t_out>>
    /\ OnlyTracker

TrackerStep ==
    TrackerStart \/ TrackerLoad \/ TrackerFill \/ TrackerDraw \/ TrackerWakes

\* Inputs of zero to three ids; what the tasks return plays no part.
TrackerNameVecs == NameVecs \cup {<<>>, <<NameA>>}

\* solve() has spawned the tracker thread and is about to start the pipeline.
InitTracker ==
    /\ config \in Configs
    /\ names \in TrackerNameVecs
    /\ task_sols = [i \in 1 .. Len(names) |-> {}]
    /\ StartOfSolve
    /\ run = 1 /\ first_run = NoFirstRun
    /\ t_pc = "start" /\ t_tasks_done = 0 /\ complete = 0 /\ incomplete = 0
    /\ tick_modulo = 0 /\ redraw = FALSE /\ t_out = NoLine

(***************************************************************************)
(* The specifications                                                      *)
(***************************************************************************)
InitSpecSolution == InitSolution /\ BlocksIdle /\ MapsIdle /\ SolveIdle
NextSolution == VFlip \/ UnReverse \/ Compare
SpecSolution == InitSpecSolution /\ [][NextSolution]_vars

InitSpecBlocks == InitBlocks /\ SolutionIdle /\ MapsIdle /\ SolveIdle
NextBlocks == GetBlockLengths
SpecBlocks == InitSpecBlocks /\ [][NextBlocks]_vars

InitSpecMaps == InitMaps /\ SolutionIdle /\ BlocksIdle /\ SolveIdle
NextMaps == ReadRecord \/ FinishRead \/ GetString \/ FindOccurrenceContaining
SpecMaps == InitSpecMaps /\ [][NextMaps]_vars

Init == InitSolve /\ SolutionIdle /\ BlocksIdle /\ MapsIdle
Next ==
    \/ Dispatch \/ Aggregate \/ CountTask \/ PipelineReturns
    \/ StoreNumTasks \/ JoinTracker \/ SortDedupWrite
Spec == Init /\ [][Next]_vars

\* Two runs of the tool over one input.
NextTwice == Next \/ RunAgain
SpecTwice == Init /\ [][NextTwice]_vars

\* One run of solve() with its tracker thread.  Every thread that can take a
\* step is scheduled in the end: the main thread with the pipeline's
\* workers, and the tracker thread.
InitSpecTracker == InitTracker /\ SolutionIdle /\ BlocksIdle /\ MapsIdle
NextTracker ==
    \/ Dispatch \/ Aggregate \/ CountTask \/ PipelineReturns
    \/ StoreNumTasks \/ JoinTracker \/ SortDedupWrite
    \/ TrackerStart \/ TrackerLoad \/ TrackerFill \/ TrackerDraw \/ TrackerWakes
SpecTracker ==
    /\ InitSpecTracker /\ [][NextTracker]_vars
    /\ WF_vars(Next)
    /\ WF_vars(TrackerStep)

(***************************************************************************)
(* Properties of Solution (SpecSolution)                                   *)
(***************************************************************************)
InBoundedRange(s) == s.overhang_left_a # MinI32 /\ s.overhang_right_b # MinI32

\* What the two methods are said to do, in unbounded integers.
Flipped(s) ==
    [id_a |-> s.id_b, id_b |-> s.id_a, orientation |-> s.orientation,
     overhang_left_a |-> 0 - s.overhang_left_a,
     overhang_right_b |-> 0 - s.overhang_right_b,
     overlap_a |-> s.overlap_b, overlap_b |-> s.overlap_a,
     errors |-> s.errors, cigar |-> s.cigar]
Unreversed(s) ==
    [id_a |-> s.id_a, id_b |-> s.id_b, orientation |-> s.orientation,
     overhang_left_a |-> 0 - s.overhang_right_b,
     overhang_right_b |-> 0 - s.overhang_left_a,
     overlap_a |-> s.overlap_a, overlap_b |-> s.overlap_b,
     errors |-> s.errors, cigar |-> s.cigar]

\* C5: for a Solution whose overhangs are not i32::MIN, neither method
\* panics; one v_flip swaps id_a with id_b and overlap_a with overlap_b and
\* negates both overhangs; one un_reverse swaps the two overhangs and negates
\* both; neither touches orientation, errors or cigar; and v_flip applied
\* twice, or un_reverse applied twice, gives back the Solution in every field.
FlipsAreInvolutions ==
    InBoundedRange(s_orig) =>
        /\ ~s_panic
        /\ s_ops = <<"v_flip">> => s_cur = Flipped(s_orig)
        /\ s_ops = <<"un_reverse">> => s_cur = Unreversed(s_orig)
        /\ s_ops = <<"v_flip", "v_flip">> => s_cur = s_orig
        /\ s_ops = <<"un_reverse", "un_reverse">> => s_cur = s_orig

\* v_flip has been applied twice, with overflow checks, to a Solution in which
\* every swap and every negation is visible.
FlippedTwice ==
    /\ s_ops = <<"v_flip", "v_flip">>
    /\ s_checks
    /\ InBoundedRange(s_orig)
    /\ s_orig.id_a # s_orig.id_b
    /\ s_orig.overlap_a # s_orig.overlap_b
    /\ s_orig.overhang_left_a = 1
    /\ s_orig.overhang_right_b = 0 - 1
    /\ s_orig.errors = 1

IdentityTuple(s) ==
    <<s.id_a, s.id_b, s.orientation, s.overhang_left_a, s.overhang_right_b,
      s.overlap_a, s.overlap_b>>

\* C6: == , cmp and the data fed to the hasher depend on exactly the seven
\* identity fields: two Solutions are equal, compare Equal and hash the same
\* data exactly when they agree on the seven fields (so a difference in errors
\* or cigar alone changes none of the three), and a == b iff a.cmp(b) is Equal.
IdentityIsSevenFields ==
    s_cmp.done =>
        /\ s_cmp.eq <=> (IdentityTuple(s_orig) = IdentityTuple(s_other))
        /\ (s_cmp.ord = Equal) <=> (IdentityTuple(s_orig) = IdentityTuple(s_other))
        /\ (s_cmp.hash_a = s_cmp.hash_b)
               <=> (IdentityTuple(s_orig) = IdentityTuple(s_other))
        /\ s_cmp.eq <=> (s_cmp.ord = Equal)

\* Two Solutions that differ in errors and in cigar have been compared.
ComparedAcrossErrors ==
    /\ s_cmp.done
    /\ s_orig.errors # s_other.errors
    /\ s_orig.cigar # s_other.cigar
    /\ s_cmp.eq
    /\ s_cmp.ord = Equal

(***************************************************************************)
(* Properties of the loader and of Maps (SpecMaps)                         *)
(***************************************************************************)
\* The offsets the map pairs with an id, read off the pairs themselves.
OffsetsOf(id) ==
    {pr[2] : pr \in {id2index_bdmap[j] : j \in 1 .. Len(id2index_bdmap)} \cap ({id} \X Nat)}
OffsetOf(id) == CHOOSE x \in OffsetsOf(id) : TRUE

\* T[from .. to) with 0-based indexes.
Slice(from, to) == [i \in 1 .. to - from |-> text[from + i]]

\* C7: when read_and_prepare has returned, every id < num_ids has exactly one
\* offset, no two ids share one, offsets strictly increase with id, and
\* get_string(id) is T[offset(id) .. offset(id+1)-1) for a non-last id and
\* T[offset(id) .. len(T)-1) for the last: the string stored for that id,
\* without the '$' before it and without the '$' or '#' after it;
\* get_length(id) is the length of that slice.
OffsetsAndStrings ==
    m_pc = "ready" =>
        /\ Len(id2index_bdmap) = num_ids
        /\ \A id \in 0 .. num_ids - 1 : Cardinality(OffsetsOf(id)) = 1
        /\ \A id1, id2 \in 0 .. num_ids - 1 :
               id1 < id2 => OffsetOf(id1) < OffsetOf(id2)
        /\ (m_query.op = "get_string" /\ m_query.arg < num_ids) =>
               LET id  == m_query.arg
                   end == IF id < num_ids - 1 THEN OffsetOf(id + 1) - 1
                          ELSE Len(text) - 1
               IN  /\ ~m_query.panic
                   /\ m_query.str = Slice(OffsetOf(id), end)
                   /\ m_query.str = m_stored[id + 1]
                   /\ text[OffsetOf(id)] = "$"
                   /\ text[end + 1] \in {"$", "#"}
                   /\ m_query.len = Len(m_query.str)

\* get_string has returned the non-empty string of a middle id of a file read
\* with reversals.
MiddleStringRead ==
    /\ m_pc = "ready"
    /\ m_cfg.reversals
    /\ num_ids = 4
    /\ m_query.op = "get_string"
    /\ m_query.arg = 2
    /\ ~m_query.panic
    /\ Len(m_query.str) = 2
    /\ m_query.str # m_stored[4]

\* C8: in every text that read_and_prepare returns, '$' occurs only as the
\* one separator immediately before each stored string and '#' only as the
\* last byte (a record whose sequence holds either byte having been rejected).
SentinelsOnlyAsSeparators ==
    m_pc = "ready" =>
        \A i \in 1 .. Len(text) :
            /\ text[i] = "$" <=> (\E id \in 0 .. num_ids - 1 : i \in OffsetsOf(id))
            /\ text[i] = "#" <=> (i = Len(text))

\* C9: with num_ids >= 1, for a text index g inside the stored string of an
\* id i, offset(i) <= g < end(i), find_occurrence_containing(g) is
\* (i, offset(i)).
FindsTheContainingId ==
    (m_pc = "ready" /\ m_query.op = "find" /\ num_ids >= 1) =>
        \A i \in 0 .. num_ids - 1 :
            (/\ OffsetOf(i) <= m_query.arg
             /\ m_query.arg < OffsetOf(i) + Len(m_stored[i + 1]))
            => (m_query.id = i /\ m_query.index = OffsetOf(i))

\* An index inside the string of the third id has been looked up.
FoundInThirdString ==
    /\ m_pc = "ready"
    /\ m_query.op = "find"
    /\ num_ids >= 3
    /\ OffsetOf(2) < m_query.arg
    /\ m_query.arg < OffsetOf(2) + Len(m_stored[3])
    /\ m_query.id = 2

(***************************************************************************)
(* Properties of solve() (Spec, SpecTwice)                                 *)
(***************************************************************************)
\* Bytewise order of two names, said directly: at the first position where
\* they differ the smaller byte decides; a proper prefix comes first.
BytesBefore(x, y) ==
    \E k \in 1 .. Len(y) :
        /\ \A j \in 1 .. k - 1 : j <= Len(x) /\ x[j] = y[j]
        /\ k > Len(x) \/ x[k] < y[k]

OrientationRank(o) == IF o = Normal THEN 0 ELSE 1

\* The name tuple of a solution, names first.
NameTuple(sol) ==
    <<names[sol.id_a + 1], names[sol.id_b + 1], OrientationRank(sol.orientation),
      sol.overhang_left_a, sol.overhang_right_b, sol.overlap_a, sol.overlap_b>>

\* Lexicographic order on name tuples.
NameTupleBefore(x, y) ==
    LET tx == NameTuple(x)
        ty == NameTuple(y)
    IN  \/ BytesBefore(tx[1], ty[1])
        \/ tx[1] = ty[1] /\ BytesBefore(tx[2], ty[2])
        \/ /\ tx[1] = ty[1] /\ tx[2] = ty[2]
           /\ \E k \in 3 .. 7 : tx[k] < ty[k] /\ \A j \in 3 .. k - 1 : tx[j] = ty[j]

DeterministicRunDone == pc = "done" /\ ~config.greedy_output

\* C4: in deterministic mode the solutions written are strictly increasing
\* in the lexicographic order on (name_a, name_b, orientation,
\* overhang_left_a, overhang_right_b, overlap_a, overlap_b), Normal before
\* Reversed; no two adjacent written solutions have the same name tuple.
WrittenStrictlyIncreasing ==
    DeterministicRunDone =>
        \A i \in 1 .. Len(written) - 1 :
            /\ NameTupleBefore(written[i], written[i + 1])
            /\ NameTuple(written[i]) # NameTuple(written[i + 1])

\* A deterministic run wrote two solutions in name order against id order.
WroteAgainstIdOrder ==
    /\ DeterministicRunDone
    /\ names = <<NameB, NameA>>
    /\ Len(written) = 2
    /\ written[1].id_a = 1
    /\ written[2].id_a = 0

\* The solutions of a sequence as a bag of identity tuples.
RECURSIVE IdentityBag(_)
IdentityBag(list) ==
    IF list = <<>> THEN EmptyBag
    ELSE IdentityBag(Tail(list)) (+) SetToBag({IdentityTuple(Head(list))})

NameTuples(list) == {NameTuple(list[i]) : i \in 1 .. Len(list)}

\* Every solution any task returned, task by task.
TaskOutputs == UNION {{<<i, x>> : x \in task_sols[i]} : i \in 1 .. Len(task_sols)}

NameTuplesAllDiffer ==
    \A p, q \in TaskOutputs : NameTuple(p[2]) = NameTuple(q[2]) => p = q

GreedyThenDeterministic ==
    /\ run = 2 /\ pc = "done"
    /\ first_run.config.greedy_output
    /\ ~config.greedy_output

DeterministicOutputIsOrderIndependent ==
    (run = 2 /\ pc = "done" /\ ~first_run.config.greedy_output /\ ~config.greedy_output)
        => wrt_buf = first_run.lines

\* The tasks that have gone through the aggregator and its last statement.
TasksAggregated == id_iterator - Cardinality(working) - (IF agg_pending THEN 1 ELSE 0)

\* C10 as stated: once the pipeline has processed all ids and before the
\* final store, tasks_done equals num_ids.
CounterEqualsNumIdsAfterPipeline ==
    pc = "store" => tasks_done = num_tasks

\* C10, amended: with config.track_progress set, tasks_done is incremented
\* once for each task, after that task's solutions were aggregated, so it
\* counts the aggregated tasks throughout the pipeline and equals num_ids once
\* the pipeline has returned and before the final store; without
\* track_progress it stays 0.
CounterCountsAggregatedTasks ==
    pc \in {"pipeline", "store"} =>
        tasks_done = IF config.track_progress THEN TasksAggregated ELSE 0

\* The pipeline of a tracked run over three ids has returned.
TrackedPipelineReturned ==
    /\ pc = "store"
    /\ config.track_progress
    /\ num_tasks = 3
    /\ tasks_done = 3
    /\ Len(written) + Len(complete_solution_list) = MaxSolutions

(***************************************************************************)
(* Properties of get_block_lengths (SpecBlocks)                            *)
(***************************************************************************)
\* ceil(eps * l) in exact arithmetic.
ExactBudget(eps, l) == CeilDiv(eps.num * l, eps.den)

\* L[0]: the first length in [tau, m] at which ceil(eps * l) increases, or
\* m + 1 if there is none.
FirstGrowth(m, eps, tau) ==
    LET grows == {l \in tau .. m : ExactBudget(eps, l - 1) < ExactBudget(eps, l)}
    IN  IF grows = {} THEN m + 1
        ELSE CHOOSE l \in grows : \A l2 \in grows : l <= l2

RECURSIVE SumOf(_)
SumOf(seq) == IF seq = <<>> THEN 0 ELSE Head(seq) + SumOf(Tail(seq))

\* C1: for m >= tau >= 1, eps in (0,1) and S >= 1, get_block_lengths returns
\* (neither assertion trips), and with L[0] the first growth length and
\* k = max(1, ceil(eps * L[0])) + S - 1, the first k blocks sum to L[0] - 1
\* and the k-th block is at least L[0] - tau.
BlockPostConditions ==
    (/\ b_out.done
     /\ b_in.patt_len >= b_in.thresh /\ b_in.thresh >= 1
     /\ b_in.err_rate.num >= 1 /\ b_in.s_param >= 1)
    => LET l0 == FirstGrowth(b_in.patt_len, b_in.err_rate, b_in.thresh)
           k  == Max(1, ExactBudget(b_in.err_rate, l0)) + b_in.s_param - 1
       IN  /\ b_out.status = "ok"
           /\ k <= Len(b_out.blocks)
           /\ SumOf(SubSeq(b_out.blocks, 1, k)) = l0 - 1
           /\ b_out.blocks[k] >= l0 - b_in.thresh

\* C12: for m >= 0, tau >= 1, eps in [0,1) and S >= 1, a list that
\* get_block_lengths returns partitions the pattern: no block length is
\* negative and the block lengths sum to m, in the single-block case m < tau
\* and in the case of prior blocks, L block and anterior blocks.  (A call
\* that panics returns no list.)
BlocksPartitionPattern ==
    (/\ b_out.done /\ b_out.status = "ok"
     /\ b_in.patt_len >= 0 /\ b_in.thresh >= 1
     /\ b_in.err_rate.num >= 0 /\ b_in.s_param >= 1)
    => /\ \A i \in 1 .. Len(b_out.blocks) : b_out.blocks[i] >= 0
       /\ SumOf(b_out.blocks) = b_in.patt_len
       /\ b_in.patt_len < b_in.thresh => b_out.blocks = <<b_in.patt_len>>

\* A call returned prior blocks of two lengths, the L block and at least two
\* anterior blocks.
ReturnedAllKindsOfBlocks ==
    /\ b_out.done /\ b_out.status = "ok"
    /\ b_in.patt_len >= b_in.thresh
    /\ b_out.k >= 3
    /\ b_out.blocks[1] < b_out.blocks[b_out.k - 1]
    /\ Len(b_out.ls) >= 3
    /\ Len(b_out.blocks) = b_out.k + Len(b_out.ls) - 1

(***************************************************************************)
(* C13: the counter never passes num_tasks                                 *)
(***************************************************************************)
\* The f32 ratio tasks_done / num_tasks the tracker computes from its load.
LoadedRatio == F32Quot(F32OfI32(t_tasks_done), F32OfI32(num_tasks))

\* C13: in every reachable state, under every interleaving of the
\* aggregator's increments, the main thread's store and the tracker's loads,
\* the counter and every value the tracker has loaded from it are at most
\* num_tasks; so the ratio the tracker computes is never greater than 1, the
\* bar never has more than 30 filled cells, and with 30 filled cells the
\* test of the inner loop fails.
TasksDoneAtMostNumTasks ==
    /\ tasks_done <= num_tasks
    /\ t_tasks_done <= num_tasks
    /\ num_tasks > 0 => ~QuotGreater(LoadedRatio, F32Quot(1, 1))
    /\ complete <= chars
    /\ complete = chars =>
           ~BarBehind(t_tasks_done, num_tasks, complete, incomplete)

\* The tracker has drawn a bar of 10 cells for 1 task of 3, the main thread
\* has stored num_tasks and waits in join, and the tracker, which has loaded
\* the stored value, has filled all 30 cells.
FilledBarAfterStore ==
    /\ config.track_progress
    /\ num_tasks = 3
    /\ pc = "join"
    /\ t_pc = "fill"
    /\ t_tasks_done = 3
    /\ complete = chars
    /\ t_out.tasks_done = 1 /\ t_out.complete = 10

(***************************************************************************)
(* C11: the tracker ends with a full bar                                   *)
(***************************************************************************)
\* C11: with progress tracking enabled, for every num_tasks >= 0, the bar
\* keeps exactly 30 cells throughout, and when the tracker thread has exited
\* it has observed tasks_done >= num_tasks and the last line it printed is a
\* bar with all 30 cells filled, followed by a newline.
TrackerEndsWithFullBar ==
    config.track_progress =>
        /\ t_pc \notin {"off", "start"} => complete + incomplete = chars
        /\ t_pc = "exited" =>
               /\ t_tasks_done >= num_tasks
               /\ t_out = [complete |-> chars, incomplete |-> 0,
                           tasks_done |-> t_tasks_done, newline |-> TRUE]
====
